---- MODULE Spec2Model ----
(***************************************************************************)
(* Relay API: the schema-probing SSZ decoder of SubmitBlockRequest         *)
(* (relay-api-types/src/lib.rs), the JsonOrSsz / Ssz extractors and        *)
(* build_response (relay-server/src/server.rs).                            *)
(*                                                                         *)
(* Scale.  A byte is a natural number.  Every fixed-size SSZ field is one  *)
(* byte wide and every SSZ offset is one byte wide (4 bytes in the real    *)
(* encoding); variable-size fields are lists of bytes.  The structure of   *)
(* the containers (which fields are fixed, which go through an offset, in  *)
(* which order) is kept.                                                   *)
(***************************************************************************)
EXTENDS Naturals, Sequences, FiniteSets, TLC

\* Longest variable-size list held by a field of a generated value.
MaxList == 1

\* Longest list of validator entries a handler returns.
MaxEntries == 3

\* Values of the data bytes of generated values.
Data == {0, 1}

(***************************************************************************)
(* Schema generations, oldest first (superstruct variants).                *)
(***************************************************************************)
Gen == {"Bellatrix", "Capella", "Deneb", "Electra"}

GenRank(g) ==
    CASE g = "Bellatrix" -> 0
      [] g = "Capella"   -> 1
      [] g = "Deneb"     -> 2
      [] g = "Electra"   -> 3

Fix(n) == [name |-> n, kind |-> "F"]
Var(n) == [name |-> n, kind |-> "V"]

\* Field layout of ExecutionPayload<G>: which fields are fixed-size and
\* which are variable-size, in declaration order.  "header" stands for the
\* run of fixed-size fields before extra_data, "block_hash" for the run
\* between extra_data and transactions, "blob_gas_used" for the two blob
\* gas counters, "deposit_requests" for the request lists.
BellatrixFields ==
    << Fix("header"), Var("extra_data"), Fix("block_hash"), Var("transactions") >>

PayloadFields(g) ==
    CASE g = "Bellatrix" -> BellatrixFields
      [] g = "Capella"   -> BellatrixFields \o << Var("withdrawals") >>
      [] g = "Deneb"     -> BellatrixFields \o << Var("withdrawals"), Fix("blob_gas_used") >>
      [] g = "Electra"   -> BellatrixFields \o << Var("withdrawals"), Fix("blob_gas_used"),
                                                  Var("deposit_requests") >>

\* Field layout of SubmitBlockRequest<G>: message, execution_payload, signature.
RequestFields ==
    << Fix("message"), Var("execution_payload"), Fix("signature") >>

(***************************************************************************)
(* SSZ container encoding: the fixed part (fixed fields in place, one      *)
(* offset per variable field), then the variable fields in order.          *)
(***************************************************************************)
RECURSIVE SumLen(_, _, _)
\* Total length of the variable items among items[1..k].
SumLen(fields, items, k) ==
    IF k = 0 THEN 0
    ELSE SumLen(fields, items, k - 1)
         + (IF fields[k].kind = "V" THEN Len(items[k]) ELSE 0)

\* Length of the fixed part: one byte per fixed field, one per offset.
FixedLen(fields) == Len(fields)

RECURSIVE FixedPart(_, _, _)
FixedPart(fields, items, k) ==
    IF k = 0 THEN << >>
    ELSE FixedPart(fields, items, k - 1)
         \o (IF fields[k].kind = "F"
             THEN items[k]
             ELSE << FixedLen(fields) + SumLen(fields, items, k - 1) >>)

RECURSIVE VarPart(_, _, _)
VarPart(fields, items, k) ==
    IF k = 0 THEN << >>
    ELSE VarPart(fields, items, k - 1)
         \o (IF fields[k].kind = "V" THEN items[k] ELSE << >>)

EncodeContainer(fields, items) ==
    FixedPart(fields, items, Len(fields)) \o VarPart(fields, items, Len(fields))

\* Serialised item of one payload field: a fixed field is its byte, a
\* variable field (a list of bytes) is its bytes.
PayloadItems(g, p) ==
    [k \in 1..Len(PayloadFields(g)) |->
        LET f == PayloadFields(g)[k]
        IN  IF f.kind = "F" THEN << p[f.name] >> ELSE p[f.name]]

payload_as_ssz_bytes(g, p) == EncodeContainer(PayloadFields(g), PayloadItems(g, p))

\* Mutant: enum_behaviour = "union", a selector byte before the container.
as_ssz_bytes_union(v) ==
    << GenRank(v.gen) >>
    \o EncodeContainer(RequestFields,
          << << v.message >>,
             payload_as_ssz_bytes(v.gen, v.execution_payload),
             << v.signature >> >>)

\* #[ssz(enum_behaviour = "transparent")]: the variant's own container
\* encoding, with no selector byte.
as_ssz_bytes(v) ==
    EncodeContainer(RequestFields,
        << << v.message >>,
           payload_as_ssz_bytes(v.gen, v.execution_payload),
           << v.signature >> >>)

(***************************************************************************)
(* SSZ container decoding (SszDecoderBuilder): register every field, then  *)
(* finalize, then slice the items.                                         *)
(***************************************************************************)
DecErr(kind, arg) == [ok |-> FALSE, err |-> << kind, arg >>]

Slice(bytes, from, to) ==
    [i \in 1..(IF to > from THEN to - from ELSE 0) |-> bytes[from + i]]

RECURSIVE Register(_, _, _, _)
\* Registers fields[k..] (field k starts at byte index k - 1); offsets is
\* the sequence of [pos, offset] read so far.  Returns [ok, offsets] or the
\* first error.
Register(fields, bytes, k, offsets) ==
    IF k > Len(fields) THEN [ok |-> TRUE, offsets |-> offsets]
    ELSE
        LET idx == k - 1
        IN  IF fields[k].kind = "F"
            THEN IF idx + 1 > Len(bytes)
                 THEN DecErr("InvalidByteLength", << Len(bytes), idx + 1 >>)
                 ELSE Register(fields, bytes, k + 1, offsets)
            ELSE IF idx + 1 > Len(bytes)
                 THEN DecErr("InvalidLengthPrefix", << Len(bytes) - idx, 1 >>)
                 ELSE LET off == bytes[idx + 1]
                      IN  IF off > Len(bytes)
                          THEN DecErr("OffsetOutOfBounds", off)
                          ELSE IF Len(offsets) > 0 /\ offsets[Len(offsets)].offset > off
                          THEN DecErr("OffsetsAreDecreasing", off)
                          ELSE Register(fields, bytes, k + 1,
                                        Append(offsets, [pos |-> k, offset |-> off]))

\* The item slices of a registered container: a fixed field's own byte, a
\* variable field's bytes from its offset to the next offset (the last one
\* to the end of the input).
Items(fields, bytes, offsets) ==
    [k \in 1..Len(fields) |->
        IF fields[k].kind = "F" THEN Slice(bytes, k - 1, k)
        ELSE LET j == CHOOSE j \in 1..Len(offsets) : offsets[j].pos = k
             IN  Slice(bytes, offsets[j].offset,
                       IF j < Len(offsets) THEN offsets[j + 1].offset ELSE Len(bytes))]

\* finalize() and the slicing, given the outcome of the registrations.
Finalize(fields, bytes, reg) ==
    IF ~reg.ok THEN reg
    ELSE IF Len(reg.offsets) = 0
    THEN IF FixedLen(fields) # Len(bytes)
         THEN DecErr("InvalidByteLength", << Len(bytes), FixedLen(fields) >>)
         ELSE [ok |-> TRUE, items |-> Items(fields, bytes, reg.offsets)]
    ELSE IF reg.offsets[1].offset < FixedLen(fields)
    THEN DecErr("OffsetIntoFixedPortion", reg.offsets[1].offset)
    ELSE IF reg.offsets[1].offset > FixedLen(fields)
    THEN DecErr("OffsetSkipsVariableBytes", reg.offsets[1].offset)
    ELSE [ok |-> TRUE, items |-> Items(fields, bytes, reg.offsets)]

DecodeContainer(fields, bytes) ==
    Finalize(fields, bytes, Register(fields, bytes, 1, << >>))

\* The decoded fields of a payload, by name.
PayloadOf(fields, d) ==
    IF ~d.ok THEN d
    ELSE [ok |-> TRUE,
          value |-> [n \in { fields[k].name : k \in 1..Len(fields) } |->
                       LET k == CHOOSE k \in 1..Len(fields) : fields[k].name = n
                       IN  IF fields[k].kind = "F" THEN d.items[k][1] ELSE d.items[k]]]

\* ExecutionPayload<G>::from_ssz_bytes.
payload_from_ssz_bytes(g, bytes) ==
    PayloadOf(PayloadFields(g), DecodeContainer(PayloadFields(g), bytes))

\* A signature is 96 bytes that must deserialise to a curve point.
ValidSignature(b) == b \in Data

\* The variant built from its decoded fields (decode_next for message,
\* execution_payload, signature, in that order).
VariantOf(g, message, p, signature) ==
    IF ~p.ok THEN p
    ELSE IF ~ValidSignature(signature) THEN DecErr("BytesInvalid", signature)
    ELSE [ok |-> TRUE,
          value |-> [gen |-> g, message |-> message,
                     execution_payload |-> p.value, signature |-> signature]]

VariantFrom(g, d) ==
    IF ~d.ok THEN d
    ELSE VariantOf(g, d.items[1][1], payload_from_ssz_bytes(g, d.items[2]), d.items[3][1])

\* SubmitBlockRequest<G>::from_ssz_bytes, derived per variant.
variant_from_ssz_bytes(g, bytes) == VariantFrom(g, DecodeContainer(RequestFields, bytes))

(***************************************************************************)
(* SubmitBlockRequest::from_ssz_bytes: nested let-else, newest first.      *)
(* `tried` lists the variant decoders run, in the order they were run.     *)
(***************************************************************************)
\* Mutant: when every attempt fails, the error of the first attempt.
LetElse_first_error(e, d, c, b) ==
    IF e.ok
    THEN [ok |-> TRUE, value |-> e.value, tried |-> << "Electra" >>]
    ELSE IF d.ok
    THEN [ok |-> TRUE, value |-> d.value, tried |-> << "Electra", "Deneb" >>]
    ELSE IF c.ok
    THEN [ok |-> TRUE, value |-> c.value, tried |-> << "Electra", "Deneb", "Capella" >>]
    ELSE IF b.ok
    THEN [ok |-> TRUE, value |-> b.value,
          tried |-> << "Electra", "Deneb", "Capella", "Bellatrix" >>]
    ELSE [ok |-> FALSE, err |-> e.err,
          tried |-> << "Electra", "Deneb", "Capella", "Bellatrix" >>]

\* Mutant: the attempts run oldest first.
OldestFirst(b, c, d, e) ==
    IF b.ok
    THEN [ok |-> TRUE, value |-> b.value, tried |-> << "Bellatrix" >>]
    ELSE IF c.ok
    THEN [ok |-> TRUE, value |-> c.value, tried |-> << "Bellatrix", "Capella" >>]
    ELSE IF d.ok
    THEN [ok |-> TRUE, value |-> d.value, tried |-> << "Bellatrix", "Capella", "Deneb" >>]
    ELSE IF e.ok
    THEN [ok |-> TRUE, value |-> e.value,
          tried |-> << "Bellatrix", "Capella", "Deneb", "Electra" >>]
    ELSE [ok |-> FALSE, err |-> e.err,
          tried |-> << "Bellatrix", "Capella", "Deneb", "Electra" >>]

from_ssz_bytes_oldest_first(bytes) ==
    OldestFirst(variant_from_ssz_bytes("Bellatrix", bytes),
                variant_from_ssz_bytes("Capella", bytes),
                variant_from_ssz_bytes("Deneb", bytes),
                variant_from_ssz_bytes("Electra", bytes))

\* The nested let-else over the four attempts e, d, c, b.
LetElse(e, d, c, b) ==
    IF e.ok
    THEN [ok |-> TRUE, value |-> e.value, tried |-> << "Electra" >>]
    ELSE IF d.ok
    THEN [ok |-> TRUE, value |-> d.value, tried |-> << "Electra", "Deneb" >>]
    ELSE IF c.ok
    THEN [ok |-> TRUE, value |-> c.value, tried |-> << "Electra", "Deneb", "Capella" >>]
    ELSE IF b.ok
    THEN [ok |-> TRUE, value |-> b.value,
          tried |-> << "Electra", "Deneb", "Capella", "Bellatrix" >>]
    ELSE [ok |-> FALSE, err |-> b.err,
          tried |-> << "Electra", "Deneb", "Capella", "Bellatrix" >>]

from_ssz_bytes(bytes) ==
    LetElse(variant_from_ssz_bytes("Electra", bytes),
            variant_from_ssz_bytes("Deneb", bytes),
            variant_from_ssz_bytes("Capella", bytes),
            variant_from_ssz_bytes("Bellatrix", bytes))

(***************************************************************************)
(* Generated inputs of the decoder.                                        *)
(***************************************************************************)
\* Lists of at most MaxList bytes, all bytes of one list equal.
Lists == { [i \in 1..n |-> d] : n \in 0..MaxList, d \in Data }

NamesOfKind(g, kind) ==
    { PayloadFields(g)[k].name :
        k \in { j \in 1..Len(PayloadFields(g)) : PayloadFields(g)[j].kind = kind } }

Payloads(g) ==
    { [n \in NamesOfKind(g, "F") \cup NamesOfKind(g, "V") |->
          IF n \in NamesOfKind(g, "F") THEN f[n] ELSE v[n]] :
        f \in [NamesOfKind(g, "F") -> Data], v \in [NamesOfKind(g, "V") -> Lists] }

Values(g) ==
    { [gen |-> g, message |-> m, execution_payload |-> p, signature |-> s] :
        m \in Data, p \in Payloads(g), s \in Data }

AllValues == UNION { Values(g) : g \in Gen }

\* One-step edits of a byte string: one byte raised or lowered by one, the
\* last byte dropped, one data byte appended.
Tamperings(bytes) ==
    { [bytes EXCEPT ![i] = bytes[i] + 1] : i \in 1..Len(bytes) }
    \cup { [bytes EXCEPT ![i] = bytes[i] - 1] : i \in { j \in 1..Len(bytes) : bytes[j] > 0 } }
    \cup { SubSeq(bytes, 1, Len(bytes) - 1) }
    \cup { Append(bytes, d) : d \in Data }

NoValue == [gen |-> "none"]
NoResult == [ok |-> FALSE, err |-> << "none", 0 >>, tried |-> << >>]

(***************************************************************************)
(* Textual (JSON) form of a SubmitBlockRequest.  A JSON object is a        *)
(* function from its keys to their values.                                 *)
(***************************************************************************)
\* #[serde(untagged)] Serialize: the variant's fields, no generation tag.
to_json(v) ==
    [message |-> v.message,
     execution_payload |-> v.execution_payload,
     signature |-> v.signature]

JsonErr(msg) == [ok |-> FALSE, err |-> msg]

\* The names of the payload fields of generation g.
PayloadNames(g) == NamesOfKind(g, "F") \cup NamesOfKind(g, "V")

\* Mutant: a payload field that is absent takes its default value.
variant_from_json_defaults(g, d) ==
    IF DOMAIN d # {"message", "execution_payload", "signature"}
    THEN JsonErr("unknown or missing field")
    ELSE IF ~(DOMAIN d["execution_payload"] \subseteq PayloadNames(g))
    THEN JsonErr("unknown or missing field")
    ELSE IF ~ValidSignature(d["signature"])
    THEN JsonErr("invalid signature")
    ELSE [ok |-> TRUE,
          value |-> [gen |-> g,
                     message |-> d["message"],
                     execution_payload |->
                        [n \in PayloadNames(g) |->
                            IF n \in DOMAIN d["execution_payload"]
                            THEN d["execution_payload"][n]
                            ELSE IF n \in NamesOfKind(g, "F") THEN 0 ELSE << >>],
                     signature |-> d["signature"]]]

\* Mutant: a payload field the generation does not have is ignored.
variant_from_json_lenient(g, d) ==
    IF DOMAIN d # {"message", "execution_payload", "signature"}
    THEN JsonErr("unknown or missing field")
    ELSE IF ~(PayloadNames(g) \subseteq DOMAIN d["execution_payload"])
    THEN JsonErr("unknown or missing field")
    ELSE IF ~ValidSignature(d["signature"])
    THEN JsonErr("invalid signature")
    ELSE [ok |-> TRUE,
          value |-> [gen |-> g,
                     message |-> d["message"],
                     execution_payload |->
                        [n \in PayloadNames(g) |-> d["execution_payload"][n]],
                     signature |-> d["signature"]]]

\* Deserialize of variant G (deny_unknown_fields): exactly the variant's
\* keys, and a payload object with exactly the payload fields of G.
variant_from_json(g, doc) ==
    IF DOMAIN doc # {"message", "execution_payload", "signature"}
    THEN JsonErr("unknown or missing field")
    ELSE IF DOMAIN doc["execution_payload"] # NamesOfKind(g, "F") \cup NamesOfKind(g, "V")
    THEN JsonErr("unknown or missing field")
    ELSE IF ~ValidSignature(doc["signature"])
    THEN JsonErr("invalid signature")
    ELSE [ok |-> TRUE,
          value |-> [gen |-> g,
                     message |-> doc["message"],
                     execution_payload |-> doc["execution_payload"],
                     signature |-> doc["signature"]]]

\* The first of the attempts b, c, d, e that deserialised.
FirstOk(b, c, d, e) ==
    IF b.ok THEN b
    ELSE IF c.ok THEN c
    ELSE IF d.ok THEN d
    ELSE IF e.ok THEN e
    ELSE JsonErr("data did not match any variant of untagged enum SubmitBlockRequest")

\* #[serde(untagged)] Deserialize: the variants in declaration order, the
\* first that deserialises wins.
from_json(doc) ==
    FirstOk(variant_from_json("Bellatrix", doc), variant_from_json("Capella", doc),
            variant_from_json("Deneb", doc), variant_from_json("Electra", doc))

\* A JSON payload object without the member n / with one more member n.
Without(p, n) == [k \in DOMAIN p \ {n} |-> p[k]]
With(p, n) ==
    [k \in DOMAIN p \cup {n} |->
        IF k \in DOMAIN p THEN p[k]
        ELSE IF k \in NamesOfKind("Electra", "F") THEN 1 ELSE << 1 >>]

\* The documents a builder sends when it takes the payload fields of d from
\* two generations: one field left out, one field of another generation
\* put in, or the newest field of generation g replaced by a field of
\* another generation.
Mixtures(d, g) ==
    { [d EXCEPT !["execution_payload"] = Without(@, n)] :
        n \in DOMAIN d["execution_payload"] }
    \cup { [d EXCEPT !["execution_payload"] = With(@, n)] :
             n \in PayloadNames("Electra") \ DOMAIN d["execution_payload"] }
    \cup { [d EXCEPT !["execution_payload"] =
                With(Without(@, PayloadFields(g)[Len(PayloadFields(g))].name), n)] :
             n \in PayloadNames("Electra") \ DOMAIN d["execution_payload"] }

(***************************************************************************)
(* HTTP requests to POST /relay/v1/builder/blocks.                         *)
(***************************************************************************)
\* A Content-Type header: absent, present with bytes that are not visible
\* ASCII, or a string `essence ++ tail`.
NoHeader == [kind |-> "absent"]
OpaqueHeader == [kind |-> "opaque"]
TextHeader(essence, tail) == [kind |-> "text", essence |-> essence, tail |-> tail]

ContentTypes ==
    { NoHeader, OpaqueHeader,
      TextHeader("application/json", ""),
      TextHeader("application/json", "; charset=utf-8"),
      TextHeader("application/json", "x"),
      TextHeader("application/octet-stream", ""),
      TextHeader("text/plain", "") }

\* headers().get(CONTENT_TYPE).and_then(|value| value.to_str().ok())
content_type(h) ==
    IF h.kind = "text" THEN [some |-> TRUE, essence |-> h.essence, tail |-> h.tail]
    ELSE [some |-> FALSE]

\* str::starts_with, for the prefixes the server tests.  No essence of
\* ContentTypes is a proper prefix of another.
starts_with(ct, prefix) == ct.essence = prefix

\* A request body: SSZ bytes, or JSON text.
SszBody(b) == [form |-> "ssz", bytes |-> b]
JsonBody(doc) == [form |-> "json", doc |-> doc]
NoBody == [form |-> "none"]

\* The bytes of a body as the SSZ decoder sees them; JSON text starts `{"m`.
body_bytes(body) ==
    IF body.form = "ssz" THEN body.bytes ELSE << 123, 34, 109 >>

\* serde_json on the body: binary bytes are not JSON text.
json_parse(body) ==
    IF body.form = "json" THEN [ok |-> TRUE, doc |-> body.doc]
    ELSE [ok |-> FALSE]

\* One request value of each generation, every list holding one byte.
SampleValue(g) ==
    [gen |-> g, message |-> 1,
     execution_payload |->
        [n \in NamesOfKind(g, "F") \cup NamesOfKind(g, "V") |->
            IF n \in NamesOfKind(g, "F") THEN 1 ELSE << 1 >>],
     signature |-> 0]

\* A JSON object with the Capella payload fields less one, plus a Deneb one.
MixedDoc ==
    [message |-> 1,
     execution_payload |->
        [n \in {"header", "extra_data", "block_hash", "transactions", "blob_gas_used"} |->
            IF n \in {"header", "block_hash", "blob_gas_used"} THEN 1 ELSE << 1 >>],
     signature |-> 0]

Bodies ==
    { SszBody(as_ssz_bytes(SampleValue("Bellatrix"))),
      SszBody(as_ssz_bytes(SampleValue("Electra"))),
      SszBody(SubSeq(as_ssz_bytes(SampleValue("Deneb")), 1, 5)),
      JsonBody(to_json(SampleValue("Capella"))),
      JsonBody(to_json(SampleValue("Deneb"))),
      JsonBody(MixedDoc) }

(***************************************************************************)
(* HTTP responses.                                                         *)
(***************************************************************************)
EmptyBody == [kind |-> "empty"]
TextBody(t) == [kind |-> "text", text |-> t]
JsonBytes(j) == [kind |-> "json", json |-> j]

HttpResponse(status, ctype, body) == [status |-> status, ctype |-> ctype, body |-> body]

\* StatusCode::into_response: the status alone, no header, empty body.
StatusOnly(status) == HttpResponse(status, "none", EmptyBody)

\* axum's JsonRejection::into_response: a status and a plain-text body.
JsonDataError(err) ==
    HttpResponse(422, "text/plain; charset=utf-8",
        TextBody(<< "Failed to deserialize the JSON body into the target type", err >>))
JsonSyntaxError ==
    HttpResponse(400, "text/plain; charset=utf-8",
        TextBody(<< "Failed to parse the request body as JSON", "expected value" >>))
MissingJsonContentType ==
    HttpResponse(415, "text/plain; charset=utf-8",
        TextBody(<< "Expected request with Content-Type: application/json" >>))

(***************************************************************************)
(* Extractors.  An extraction is [ok, payload | response, reads, json, ssz] *)
(* where reads counts the reads of the body stream and json / ssz the runs *)
(* of the textual / binary decoder.                                        *)
(***************************************************************************)
Extracted(payload, reads, json, ssz) ==
    [ok |-> TRUE, payload |-> payload, reads |-> reads, json |-> json, ssz |-> ssz]
Rejected(response, reads, json, ssz) ==
    [ok |-> FALSE, response |-> response, reads |-> reads, json |-> json, ssz |-> ssz]

\* Mutant: the decode error is sent back in the body.
SszExtraction_leaks(d) ==
    IF d.ok THEN Extracted(d.value, 1, 0, 1)
    ELSE Rejected(HttpResponse(400, "text/plain; charset=utf-8", TextBody(d.err)), 1, 0, 1)

\* The extraction a textual / binary decode result amounts to.
JsonExtraction(d) ==
    IF d.ok THEN Extracted(d.value, 1, 1, 0) ELSE Rejected(JsonDataError(d.err), 1, 1, 0)

SszExtraction(d) ==
    IF d.ok THEN Extracted(d.value, 1, 0, 1) ELSE Rejected(StatusOnly(400), 1, 0, 1)

\* axum::Json<T>::from_request: the media type must be application/json
\* (parameters allowed), then the body is read and deserialised.
JsonFromRequest(h, body) ==
    IF ~(content_type(h).some /\ content_type(h).essence = "application/json"
          /\ content_type(h).tail \in {"", "; charset=utf-8"})
    THEN Rejected(MissingJsonContentType, 0, 0, 0)
    ELSE IF ~json_parse(body).ok
    THEN Rejected(JsonSyntaxError, 1, 1, 0)
    ELSE JsonExtraction(from_json(json_parse(body).doc))

\* Ssz<T>::from_request.
SszFromRequest(h, body) ==
    IF content_type(h).some /\ starts_with(content_type(h), "application/octet-stream")
    THEN SszExtraction(from_ssz_bytes(body_bytes(body)))
    ELSE Rejected(StatusOnly(415), 0, 0, 0)

\* Mutant: a body the textual decoder rejects is handed to the binary one.
JsonThenSsz(j, h, body) ==
    IF j.ok \/ j.reads = 0 THEN j
    ELSE IF from_ssz_bytes(body_bytes(body)).ok
    THEN Extracted(from_ssz_bytes(body_bytes(body)).value, 2, 1, 1)
    ELSE Rejected(StatusOnly(400), 2, 1, 1)

JsonOrSszFromRequest_fallback(h, body) ==
    IF content_type(h).some /\ starts_with(content_type(h), "application/json")
    THEN JsonThenSsz(JsonFromRequest(h, body), h, body)
    ELSE IF content_type(h).some /\ starts_with(content_type(h), "application/octet-stream")
    THEN SszFromRequest(h, body)
    ELSE Rejected(StatusOnly(415), 0, 0, 0)

\* Mutant: a request without a readable Content-Type is taken to be JSON.
JsonOrSszFromRequest_default_json(h, body) ==
    IF ~content_type(h).some
    THEN JsonFromRequest(TextHeader("application/json", ""), body)
    ELSE IF starts_with(content_type(h), "application/json")
    THEN JsonFromRequest(h, body)
    ELSE IF starts_with(content_type(h), "application/octet-stream")
    THEN SszFromRequest(h, body)
    ELSE Rejected(StatusOnly(415), 0, 0, 0)

\* JsonOrSsz<T>::from_request.
JsonOrSszFromRequest(h, body) ==
    IF content_type(h).some /\ starts_with(content_type(h), "application/json")
    THEN JsonFromRequest(h, body)
    ELSE IF content_type(h).some /\ starts_with(content_type(h), "application/octet-stream")
    THEN SszFromRequest(h, body)
    ELSE Rejected(StatusOnly(415), 0, 0, 0)

(***************************************************************************)
(* Handler results (relay_api_types::Response<T>) and their encoding.      *)
(***************************************************************************)
\* ErrorResponse { code, message, stacktraces }.
ErrorResponse(code, message, stacktraces) ==
    [code |-> code, message |-> message, stacktraces |-> stacktraces]

None == [some |-> FALSE]
Some(x) == [some |-> TRUE, val |-> x]

Success(body) == [arm |-> "Success", body |-> body]
Error(body) == [arm |-> "Error", body |-> body]

\* A success payload T: its data, and what its Serialize impl does.
Payload(data, serde) == [data |-> data, serde |-> serde]

HandlerResults ==
    { Success(Payload(<< >>, "ok")), Success(Payload(<< 7, 8 >>, "ok")),
      Success(Payload(<< 7 >>, "fails")), Success(Payload(<< 7 >>, "panics")) }
    \cup { Error(ErrorResponse(c, "not found", None)) : c \in {99, 404, 1000} }
    \cup { Error(ErrorResponse(400, "bad block", Some(<< "trace" >>))) }

\* JSON text, as the sequence of its members.
JArr(items) == [j |-> "array", items |-> items]
JObj(members) == [j |-> "object", members |-> members]

\* Mutant: no skip_serializing_if, stacktraces is written as null.
error_to_json_null_stacktraces(e) ==
    JObj(<< << "code", e.code >>, << "message", e.message >>,
            << "stacktraces", IF e.stacktraces.some THEN JArr(e.stacktraces.val)
                              ELSE "null" >> >>)

\* Mutant: the error is written as its message alone.
error_to_json_message_only(e) == JObj(<< << "message", e.message >> >>)

\* serde_json::to_vec(&ErrorResponse): stacktraces is skipped when None.
error_to_json(e) ==
    JObj(<< << "code", e.code >>, << "message", e.message >> >>
         \o (IF e.stacktraces.some THEN << << "stacktraces", JArr(e.stacktraces.val) >> >>
             ELSE << >>))

\* Mutant: the Response enum is serialised, not its payload.
payload_to_json_tagged(p) == JObj(<< << "Success", JArr(p.data) >> >>)

\* serde_json::to_vec(&T) for a list payload.
payload_to_json(p) == JArr(p.data)

\* The closure given to spawn_blocking: Ok(bytes), Err(500), or a panic.
serialize(res) ==
    IF res.arm = "Error" THEN [out |-> "ok", bytes |-> JsonBytes(error_to_json(res.body))]
    ELSE IF res.body.serde = "ok"
    THEN [out |-> "ok", bytes |-> JsonBytes(payload_to_json(res.body))]
    ELSE IF res.body.serde = "fails" THEN [out |-> "err"]
    ELSE [out |-> "panic"]

\* http::StatusCode::from_u16.
status_from_u16(code) ==
    IF code >= 100 /\ code < 1000 THEN [ok |-> TRUE, status |-> code] ELSE [ok |-> FALSE]

\* HeaderValue::from_str: visible ASCII only.
header_value_from_str(s) ==
    IF s \in {"application/json", "text/plain; charset=utf-8"}
    THEN [ok |-> TRUE, value |-> s] ELSE [ok |-> FALSE]

\* Response::builder().status(..) and the Content-Type insertion: the
\* builder keeps the first error, and headers_mut() is None once it has
\* one; a header value that cannot be built fails the request (`failed`).
BuilderOf(st, hv) ==
    IF ~st.ok THEN [failed |-> FALSE, ok |-> FALSE]
    ELSE IF ~hv.ok THEN [failed |-> TRUE]
    ELSE [failed |-> FALSE, ok |-> TRUE, status |-> st.status, ctype |-> hv.value]

response_builder(res) ==
    BuilderOf(IF res.arm = "Success" THEN status_from_u16(200)
              ELSE status_from_u16(res.body.code),
              header_value_from_str("application/json"))

\* Mutant: a failed serialisation is answered with the status set so far
\* and whatever was written.
finish_response_lenient(builder, task) ==
    IF ~builder.ok THEN StatusOnly(500)
    ELSE IF task.out # "ok" THEN HttpResponse(builder.status, builder.ctype, EmptyBody)
    ELSE HttpResponse(builder.status, builder.ctype, task.bytes)

\* The rest of build_response once the blocking task has ended, and the
\* conversion of Err(StatusCode) to a response.
finish_response(builder, task) ==
    IF task.out # "ok" THEN StatusOnly(500)
    ELSE IF ~builder.ok THEN StatusOnly(500)
    ELSE HttpResponse(builder.status, builder.ctype, task.bytes)

Reqs == {1, 2}

\* Mutant: the closure is called in place, on the worker thread.
serialize_in_place(r) == [worker |-> r, pool |-> {}]

\* tokio::task::spawn_blocking: the closure of request r runs on a thread
\* of the blocking pool, none of the runtime's worker threads is taken.
spawn_blocking(r) == [worker |-> 0, pool |-> {r}]

NoOutcome == [arm |-> "none"]
NoBuilder == [failed |-> FALSE, ok |-> FALSE]
NoTask == [out |-> "none"]
NoResponse == [status |-> 0]

NoDoc == [none |-> 0]
NoJson == [ok |-> FALSE, err |-> "none"]

(***************************************************************************)
(* The client (relay-client): RelayClient::build_response.                 *)
(***************************************************************************)
\* Result<T, Error> of the client.
Reply(v) == [ok |-> TRUE, value |-> v, err |-> "none"]
Failure(kind) == [ok |-> FALSE, value |-> NoOutcome, err |-> kind]
NoReply == Failure("none")

\* The results GET /relay/v1/builder/validators gets from its handler:
\* lists of validator entries, or an error.
EntryLists == UNION { [1..n -> {7, 8}] : n \in 0..MaxEntries }

ValidatorResults ==
    { Success(Payload(l, s)) : l \in EntryLists, s \in {"ok", "fails"} }
    \cup { Error(ErrorResponse(404, "not found", None)),
           Error(ErrorResponse(400, "bad block", Some(<< "trace" >>))) }

\* StatusCode::is_success.
is_success(status) == status \in 200..299

\* The one member of a JSON object that has exactly one member.
OnlyMember(j) == j.members[1]

\* ErrorResponse from its JSON object.
error_from_json(j) ==
    ErrorResponse(j.members[1][2], j.members[2][2],
                  IF Len(j.members) = 3 THEN Some(j.members[3][2].items) ELSE None)

\* serde_json::from_str::<Response<T>>: derive(Deserialize) on an enum
\* without a tag attribute reads the externally tagged form, an object
\* whose one key is the variant's name; any other JSON value is an error,
\* as is an empty text.
response_from_str(body) ==
    IF body.kind # "json" THEN [ok |-> FALSE]
    ELSE IF body.json.j # "object" THEN [ok |-> FALSE]
    ELSE IF Len(body.json.members) # 1 THEN [ok |-> FALSE]
    ELSE IF OnlyMember(body.json)[1] = "Success"
    THEN [ok |-> TRUE, value |-> Success(OnlyMember(body.json)[2].items)]
    ELSE IF OnlyMember(body.json)[1] = "Error"
    THEN [ok |-> TRUE, value |-> Error(error_from_json(OnlyMember(body.json)[2]))]
    ELSE [ok |-> FALSE]

\* What build_response returns for a text that parsed as p.
Parsed(p) == IF p.ok THEN Reply(p.value) ELSE Failure("InvalidJson")

\* RelayClient::build_response for the response resp; text_ok tells whether
\* the body could be read off the connection.
client_build_response(resp, text_ok) ==
    IF is_success(resp.status)
    THEN IF text_ok THEN Parsed(response_from_str(resp.body)) ELSE Failure("Reqwest")
    ELSE IF text_ok THEN Failure("ServerMessage")
    ELSE Failure("StatusCode")

IdleReq ==
    [pc |-> "idle", ctype |-> NoHeader, body |-> NoBody, decoded |-> NoValue,
     outcome |-> NoOutcome, builder |-> NoBuilder, task |-> NoTask,
     response |-> NoResponse,
     reads |-> 0, json |-> 0, ssz |-> 0, calls |-> 0, serializations |-> 0,
     during |-> {}]

VARIABLES
    value,      \* the request value that was encoded, NoValue for edited bytes
    bytes,      \* the byte string handed to the decoder
    result,     \* what from_ssz_bytes returned
    phase,      \* "new", "encoded", "tampered", "decoded"
    req,        \* the server's in-flight requests: request id -> its state
    worker,     \* the request whose code holds the runtime's worker thread, 0 when free
    pool,       \* the requests whose closure a blocking-pool thread is running
    doc,        \* the JSON document handed to the textual decoder
    jresult,    \* what the textual decoder returned
    client      \* request id -> what the client's build_response returned

vars == << value, bytes, result, phase, req, worker, pool, doc, jresult, client >>

SszInit ==
    /\ value \in AllValues
    /\ bytes = << >>
    /\ result = NoResult
    /\ phase = "new"
    /\ req = [r \in Reqs |-> IdleReq]
    /\ worker = 0
    /\ pool = {}
    /\ doc = NoDoc
    /\ jresult = NoJson
    /\ client = [r \in Reqs |-> NoReply]

\* The builder serialises its request (Encode for SubmitBlockRequest).
SszEncode ==
    /\ phase = "new"
    /\ bytes' = as_ssz_bytes(value)
    /\ phase' = "encoded"
    /\ UNCHANGED << value, result, req, worker, pool, doc, jresult, client >>

\* Some other byte string is received instead.
SszTamper ==
    /\ phase = "encoded"
    /\ bytes' \in Tamperings(bytes)
    /\ value' = NoValue
    /\ phase' = "tampered"
    /\ UNCHANGED << result, req, worker, pool, doc, jresult, client >>

\* The relay decodes the received bytes.
SszDecode ==
    /\ phase \in {"encoded", "tampered"}
    /\ result' = from_ssz_bytes(bytes)
    /\ phase' = "decoded"
    /\ UNCHANGED << value, bytes, req, worker, pool, doc, jresult, client >>

SszNext == SszEncode \/ SszTamper \/ SszDecode

SszSpec == SszInit /\ [][SszNext]_vars

(***************************************************************************)
(* The two decoders of SubmitBlockRequest on the same submission.          *)
(***************************************************************************)
\* The builder serialises the same request as JSON.
JsonEncode ==
    /\ phase = "decoded" /\ value # NoValue
    /\ doc' = to_json(value)
    /\ phase' = "json"
    /\ UNCHANGED << value, bytes, result, req, worker, pool, jresult, client >>

\* A document with payload fields of two generations is received instead.
JsonMix ==
    /\ phase = "json"
    /\ doc' \in Mixtures(doc, value.gen)
    /\ value' = NoValue
    /\ bytes' = << >>
    /\ result' = NoResult
    /\ phase' = "mixed"
    /\ UNCHANGED << req, worker, pool, jresult, client >>

\* The relay deserialises the received document.
JsonDecode ==
    /\ phase \in {"json", "mixed"}
    /\ jresult' = from_json(doc)
    /\ phase' = "jdecoded"
    /\ UNCHANGED << value, bytes, result, req, worker, pool, doc, client >>

JsonNext == SszEncode \/ SszDecode \/ JsonEncode \/ JsonMix \/ JsonDecode

JsonSpec == SszInit /\ [][JsonNext]_vars

(***************************************************************************)
(* The server: submit_block, one task per request.                         *)
(***************************************************************************)
Init ==
    /\ value = NoValue
    /\ bytes = << >>
    /\ result = NoResult
    /\ phase = "server"
    /\ req = [r \in Reqs |-> IdleReq]
    /\ worker = 0
    /\ pool = {}
    /\ doc = NoDoc
    /\ jresult = NoJson
    /\ client = [r \in Reqs |-> NoReply]

\* A request arrives.
Receive(r) ==
    /\ req[r].pc = "idle"
    /\ worker = 0
    /\ \E h \in ContentTypes, b \in Bodies :
          req' = [req EXCEPT ![r] = [@ EXCEPT !.pc = "extract", !.ctype = h, !.body = b]]
    /\ UNCHANGED << value, bytes, result, phase, worker, pool, doc, jresult, client >>

\* Mutant: the handler is reached whatever the extractor returned.
AfterExtract_dispatch_anyway(rq, x) ==
    [rq EXCEPT !.pc = "dispatch",
               !.decoded = IF x.ok THEN x.payload ELSE NoValue,
               !.body = IF x.reads > 0 THEN NoBody ELSE @,
               !.reads = @ + x.reads, !.json = @ + x.json, !.ssz = @ + x.ssz]

\* The request after the extraction x: the payload on to the handler, or
\* the rejection as the response.
AfterExtract(rq, x) ==
    IF x.ok
    THEN [rq EXCEPT !.pc = "dispatch", !.decoded = x.payload,
                    !.body = IF x.reads > 0 THEN NoBody ELSE @,
                    !.reads = @ + x.reads, !.json = @ + x.json, !.ssz = @ + x.ssz]
    ELSE [rq EXCEPT !.pc = "done", !.response = x.response,
                    !.body = IF x.reads > 0 THEN NoBody ELSE @,
                    !.reads = @ + x.reads, !.json = @ + x.json, !.ssz = @ + x.ssz]

\* The JsonOrSsz extractor runs; a rejection is the response.
Extract(r) ==
    /\ req[r].pc = "extract"
    /\ worker = 0
    /\ req' = [req EXCEPT ![r] =
                AfterExtract(@, JsonOrSszFromRequest(req[r].ctype, req[r].body))]
    /\ UNCHANGED << value, bytes, result, phase, worker, pool, doc, jresult, client >>

\* api_impl.submit_block(query_params, body) is called with the payload.
Dispatch(r) ==
    /\ req[r].pc = "dispatch"
    /\ worker = 0
    /\ req' = [req EXCEPT ![r] = [@ EXCEPT !.pc = "handling", !.calls = @ + 1]]
    /\ UNCHANGED << value, bytes, result, phase, worker, pool, doc, jresult, client >>

\* The handler returns its Response<T>.
HandlerReturn(r) ==
    /\ req[r].pc = "handling"
    /\ worker = 0
    /\ \E res \in HandlerResults :
          req' = [req EXCEPT ![r] = [@ EXCEPT !.pc = "encode", !.outcome = res,
                                               !.decoded = NoValue]]
    /\ UNCHANGED << value, bytes, result, phase, worker, pool, doc, jresult, client >>

\* The request once the builder b is set up.
AfterBuilder(rq, b) ==
    IF b.failed
    THEN [rq EXCEPT !.pc = "done", !.response = StatusOnly(500)]
    ELSE [rq EXCEPT !.pc = "spawned", !.builder = b]

\* build_response up to spawn_blocking(..).await: status and header, then
\* the serialisation is handed to the blocking pool.  The field during
\* records which other requests were being serialised at that moment.
BuildResponse(r) ==
    /\ req[r].pc = "encode"
    /\ worker = 0
    /\ req' = [req EXCEPT ![r] =
                [AfterBuilder(@, response_builder(req[r].outcome))
                    EXCEPT !.during = { s \in Reqs \ {r} : req[s].pc = "serializing" }]]
    /\ UNCHANGED << value, bytes, result, phase, worker, pool, doc, jresult, client >>

\* A thread starts to run the closure that serialises the result of request
\* r, in the execution context spawn_blocking gives it.
StartSerialize(r) ==
    /\ req[r].pc = "spawned"
    /\ spawn_blocking(r).worker # 0 => worker = 0
    /\ req' = [req EXCEPT ![r] = [@ EXCEPT !.pc = "serializing"]]
    /\ worker' = IF spawn_blocking(r).worker # 0 THEN spawn_blocking(r).worker ELSE worker
    /\ pool' = pool \cup spawn_blocking(r).pool
    /\ UNCHANGED << value, bytes, result, phase, doc, jresult, client >>

\* serde_json::to_vec returns, after however long it takes; the thread is
\* released.
Serialize(r) ==
    /\ req[r].pc = "serializing"
    /\ req' = [req EXCEPT ![r] = [@ EXCEPT !.pc = "joined",
                                         !.task = serialize(req[r].outcome),
                                         !.serializations = @ + 1]]
    /\ worker' = IF worker = r THEN 0 ELSE worker
    /\ pool' = pool \ {r}
    /\ UNCHANGED << value, bytes, result, phase, doc, jresult, client >>

\* The request task resumes with the join result and assembles the response.
Respond(r) ==
    /\ req[r].pc = "joined"
    /\ worker = 0
    /\ req' = [req EXCEPT ![r] = [@ EXCEPT !.pc = "done",
                                         !.response = finish_response(req[r].builder, req[r].task),
                                         !.task = NoTask]]
    /\ UNCHANGED << value, bytes, result, phase, worker, pool, doc, jresult, client >>

Next ==
    \E r \in Reqs :
        \/ Receive(r)
        \/ Extract(r)
        \/ Dispatch(r)
        \/ HandlerReturn(r)
        \/ BuildResponse(r)
        \/ StartSerialize(r)
        \/ Serialize(r)
        \/ Respond(r)

Spec == Init /\ [][Next]_vars

\* Scheduling: the worker thread polls every task that is ready, and the
\* blocking pool gives every spawned closure a thread.  Nothing is assumed
\* about how long the serialisation of request 1 takes; that of the other
\* requests ends.
FairSpec ==
    /\ Spec
    /\ \A r \in Reqs :
          /\ WF_vars(BuildResponse(r))
          /\ WF_vars(StartSerialize(r))
          /\ WF_vars(Respond(r))
    /\ \A r \in Reqs \ {1} : WF_vars(Serialize(r))

(***************************************************************************)
(* The client against the server: GET /relay/v1/builder/validators.        *)
(***************************************************************************)
\* Request 1 is a get_validators request whose handler has just returned.
ClientInit ==
    /\ value = NoValue
    /\ bytes = << >>
    /\ result = NoResult
    /\ phase = "client"
    /\ \E res \in ValidatorResults :
          req = [r \in Reqs |->
                   IF r = 1 THEN [IdleReq EXCEPT !.pc = "encode", !.calls = 1, !.outcome = res]
                   ELSE IdleReq]
    /\ worker = 0
    /\ pool = {}
    /\ doc = NoDoc
    /\ jresult = NoJson
    /\ client = [r \in Reqs |-> NoReply]

\* The client's build_response takes the response of request r.
ClientReceive(r) ==
    /\ req[r].pc = "done"
    /\ client[r] = NoReply
    /\ \E text_ok \in BOOLEAN :
          client' = [client EXCEPT ![r] = client_build_response(req[r].response, text_ok)]
    /\ UNCHANGED << value, bytes, result, phase, req, worker, pool, doc, jresult >>

ClientNext ==
    \E r \in Reqs :
        \/ BuildResponse(r)
        \/ StartSerialize(r)
        \/ Serialize(r)
        \/ Respond(r)
        \/ ClientReceive(r)

ClientSpec == ClientInit /\ [][ClientNext]_vars

(***************************************************************************)
(* Properties of the decoder.                                              *)
(***************************************************************************)
\* The generations whose own decoder accepts the bytes.
Accepting(b) == { g \in Gen : variant_from_ssz_bytes(g, b).ok }

Newest(S) == CHOOSE g \in S : \A h \in S : GenRank(h) <= GenRank(g)

\* Electra, Deneb, ... down to generation g.
DownTo(g) == SubSeq(<< "Electra", "Deneb", "Capella", "Bellatrix" >>, 1, 4 - GenRank(g))

\* C1: the decoders are run newest first (Electra, Deneb, Capella,
\* Bellatrix), an older one only after every newer one has failed, and the
\* result is the newest generation whose decoder accepts the bytes, tagged
\* with that generation.
C1_NewestFirst ==
    phase = "decoded" =>
        IF Accepting(bytes) = {}
        THEN ~result.ok /\ result.tried = DownTo("Bellatrix")
        ELSE /\ result.ok
             /\ result.value.gen = Newest(Accepting(bytes))
             /\ result.value = variant_from_ssz_bytes(Newest(Accepting(bytes)), bytes).value
             /\ result.tried = DownTo(Newest(Accepting(bytes)))

\* Edited bytes that only the Capella decoder accepts resolve to Capella,
\* after Electra and Deneb were tried.
C1_Witness ==
    /\ phase = "decoded" /\ value = NoValue
    /\ Accepting(bytes) = {"Capella"}
    /\ result.ok /\ result.value.gen = "Capella"
    /\ result.tried = << "Electra", "Deneb", "Capella" >>

\* C2: bytes that no generation accepts fail with the error of the
\* Bellatrix attempt.
C2_OldestError ==
    (phase = "decoded" /\ Accepting(bytes) = {}) =>
        /\ ~result.ok
        /\ result.err = variant_from_ssz_bytes("Bellatrix", bytes).err

\* All four decoders fail and the three newer ones fail with errors that
\* differ from the one surfaced.
C2_Witness ==
    /\ phase = "decoded" /\ Accepting(bytes) = {}
    /\ ~result.ok
    /\ \A g \in Gen \ {"Bellatrix"} : variant_from_ssz_bytes(g, bytes).err # result.err

\* C3: the bytes a value of generation G encodes to decode to that value,
\* tagged G.
C3_RoundTrip ==
    (phase = "decoded" /\ value # NoValue) =>
        /\ result.ok
        /\ result.value.gen = value.gen
        /\ result.value = value

C3_Witness ==
    /\ phase = "decoded" /\ value # NoValue
    /\ value.gen = "Deneb"
    /\ value.execution_payload["withdrawals"] # << >>
    /\ value.execution_payload["extra_data"] # << >>
    /\ result.ok /\ result.value = value

(***************************************************************************)
(* Properties of the server.                                               *)
(***************************************************************************)
Extracting(r) == req[r].pc \in {"idle", "extract"}

BeginsWith(h, prefix) == h.kind = "text" /\ h.essence = prefix

\* C4: which decoder runs follows from the Content-Type alone: the textual
\* decoder only under a type that begins with application/json, the binary
\* one only under a type that begins with application/octet-stream, never
\* both for one request, and the body is read once when a decoder runs and
\* never more than once.
C4_OneDecoder ==
    \A r \in Reqs :
        /\ req[r].json > 0 => BeginsWith(req[r].ctype, "application/json")
        /\ req[r].ssz > 0 => BeginsWith(req[r].ctype, "application/octet-stream")
        /\ req[r].json + req[r].ssz <= 1
        /\ req[r].reads = req[r].json + req[r].ssz
        /\ (~Extracting(r) /\ BeginsWith(req[r].ctype, "application/octet-stream"))
              => req[r].ssz = 1
        /\ (~Extracting(r) /\ BeginsWith(req[r].ctype, "application/json")
              /\ req[r].ctype.tail \in {"", "; charset=utf-8"})
              => req[r].json = 1

\* A binary body sent as application/json; charset=utf-8 went through the
\* textual decoder alone, once.
C4_Witness ==
    /\ req[1].pc = "done"
    /\ req[1].ctype = TextHeader("application/json", "; charset=utf-8")
    /\ req[1].json = 1 /\ req[1].ssz = 0 /\ req[1].reads = 1
    /\ req[1].response.status = 400
    /\ req[1].response.body.kind = "text"

\* C5: a request whose Content-Type is absent, not readable as text, or
\* begins with neither media type is answered 415 with no decoder run, no
\* read of the body and no call of the handler.
C5_Unsupported ==
    \A r \in Reqs :
        (/\ ~Extracting(r)
         /\ ~BeginsWith(req[r].ctype, "application/json")
         /\ ~BeginsWith(req[r].ctype, "application/octet-stream"))
        => /\ req[r].pc = "done"
           /\ req[r].response.status = 415
           /\ req[r].json = 0 /\ req[r].ssz = 0 /\ req[r].reads = 0
           /\ req[r].body # NoBody
           /\ req[r].calls = 0

C5_Witness ==
    /\ req[1].pc = "done" /\ req[1].ctype = TextHeader("text/plain", "")
    /\ req[1].response.status = 415 /\ req[1].reads = 0 /\ req[1].calls = 0
    /\ req[2].pc = "done" /\ req[2].ctype = OpaqueHeader
    /\ req[2].response.status = 415

ErrorOutcome(r) == req[r].pc = "done" /\ req[r].outcome.arm = "Error"

\* The JSON text {"code":c,"message":m} or, with stack traces t,
\* {"code":c,"message":m,"stacktraces":t}.
ErrorJson(e) ==
    IF e.stacktraces.some
    THEN JObj(<< << "code", e.code >>, << "message", e.message >>,
                 << "stacktraces", JArr(e.stacktraces.val) >> >>)
    ELSE JObj(<< << "code", e.code >>, << "message", e.message >> >>)

\* C6 as stated: for every code, the response to Error{code, ..} has status
\* code and the JSON error as its body.
C6_AnyCode ==
    \A r \in Reqs :
        ErrorOutcome(r) =>
            /\ req[r].response.status = req[r].outcome.body.code
            /\ req[r].response.body = JsonBytes(ErrorJson(req[r].outcome.body))

\* C6, amended: for every code from 100 to 999 the response to
\* Error{code, ..} has status code and the JSON error as its body, the
\* stacktraces member left out when absent; for any other code the request
\* ends with status 500 and an empty body.
C6_ValidCode ==
    \A r \in Reqs :
        ErrorOutcome(r) =>
            IF req[r].outcome.body.code >= 100 /\ req[r].outcome.body.code <= 999
            THEN /\ req[r].response.status = req[r].outcome.body.code
                 /\ req[r].response.body = JsonBytes(ErrorJson(req[r].outcome.body))
            ELSE /\ req[r].response.status = 500
                 /\ req[r].response.body = EmptyBody

C6_Witness ==
    /\ ErrorOutcome(1)
    /\ req[1].outcome.body = ErrorResponse(404, "not found", None)
    /\ req[1].response.status = 404
    /\ req[1].response.body.json.members = << << "code", 404 >>, << "message", "not found" >> >>
    /\ ErrorOutcome(2)
    /\ req[2].outcome.body.code = 1000
    /\ req[2].response.status = 500

\* C7: Success(T) is answered 200 with the JSON of T alone as body, and
\* every response that build_response assembles has Content-Type
\* application/json, whatever the Content-Type of the request.
C7_SuccessArm ==
    \A r \in Reqs :
        /\ (req[r].pc = "done" /\ req[r].outcome.arm = "Success"
              /\ req[r].outcome.body.serde = "ok")
           => /\ req[r].response.status = 200
              /\ req[r].response.body = JsonBytes(JArr(req[r].outcome.body.data))
              /\ req[r].response.ctype = "application/json"
        /\ (req[r].pc = "done" /\ req[r].outcome.arm # "none"
              /\ req[r].response.body # EmptyBody)
           => req[r].response.ctype = "application/json"

C7_Witness ==
    /\ req[1].pc = "done"
    /\ req[1].ctype = TextHeader("application/octet-stream", "")
    /\ req[1].outcome = Success(Payload(<< 7, 8 >>, "ok"))
    /\ req[1].response = HttpResponse(200, "application/json", JsonBytes(JArr(<< 7, 8 >>)))
    /\ req[2].pc = "done"
    /\ req[2].ctype = TextHeader("application/json", "")
    /\ req[2].outcome.arm = "Error"
    /\ req[2].response.ctype = "application/json"

\* A body that is a JSON object with a numeric code and a message.
Structured(body) ==
    /\ body.kind = "json"
    /\ body.json.j = "object"
    /\ Len(body.json.members) >= 2
    /\ body.json.members[1][1] = "code" /\ body.json.members[1][2] \in Nat
    /\ body.json.members[2][1] = "message"

Failed(r) == req[r].pc = "done" /\ req[r].response.status >= 400

HandlerError(r) ==
    /\ req[r].outcome.arm = "Error"
    /\ req[r].outcome.body.code >= 100 /\ req[r].outcome.body.code <= 999

DecodeFailed(r) == req[r].pc = "done" /\ req[r].reads = 1 /\ req[r].outcome.arm = "none"

Unencodable(res) ==
    \/ res.arm = "Success" /\ res.body.serde # "ok"
    \/ res.arm = "Error" /\ (res.body.code < 100 \/ res.body.code > 999)

\* C10: a request whose result cannot be encoded ends with status 500 and
\* an empty body, and the serialisation runs at most once per request.
C10_EncodeFailure ==
    \A r \in Reqs :
        /\ req[r].serializations <= 1
        /\ (req[r].pc = "done" /\ Unencodable(req[r].outcome))
           => /\ req[r].response = StatusOnly(500)
              /\ req[r].serializations = 1

C10_Witness ==
    /\ req[1].pc = "done" /\ req[1].outcome = Success(Payload(<< 7 >>, "panics"))
    /\ req[1].response = StatusOnly(500) /\ req[1].serializations = 1
    /\ req[2].pc = "done" /\ req[2].outcome = Success(Payload(<< 7 >>, "fails"))
    /\ req[2].response = StatusOnly(500) /\ req[2].serializations = 1

(***************************************************************************)
(* Order of the steps of one request.                                      *)
(***************************************************************************)
\* The handler of request r is called in this step.
Called(r) == req'[r].calls # req[r].calls

\* build_response of request r does something in this step: it sets up the
\* builder, serialises, or produces the response of a handled request.
Encoding(r) ==
    \/ req'[r].builder # req[r].builder
    \/ req'[r].serializations # req[r].serializations
    \/ req[r].pc = "encode" /\ req'[r].pc # "encode"

\* C11: within one request the handler is called at most once, and only
\* with a payload that one decoder run produced from the body; every step
\* of build_response comes after the one call of the handler has returned
\* its result, and no decoder runs once the handler was called.
C11_Order ==
    [][\A r \in Reqs :
        /\ Called(r) =>
              /\ req[r].calls = 0 /\ req'[r].calls = 1
              /\ req[r].json + req[r].ssz = 1
              /\ req[r].decoded # NoValue
              /\ req[r].outcome = NoOutcome /\ req[r].builder = NoBuilder
        /\ Encoding(r) =>
              /\ req[r].calls = 1 /\ req'[r].calls = 1
              /\ req[r].outcome # NoOutcome
        /\ req[r].calls > 0 =>
              /\ req'[r].json = req[r].json /\ req'[r].ssz = req[r].ssz
              /\ req'[r].reads = req[r].reads]_vars

\* A request that went through all three steps: decoded from SSZ, handled
\* once, encoded once and answered 200.
C11_Witness ==
    /\ req[1].pc = "done"
    /\ req[1].ssz = 1 /\ req[1].calls = 1 /\ req[1].serializations = 1
    /\ req[1].outcome.arm = "Success"
    /\ req[1].response.status = 200

(***************************************************************************)
(* Serialisation off the worker thread.                                    *)
(***************************************************************************)
\* C12: a serialisation in progress runs on a blocking-pool thread and
\* never holds the worker thread, and however long the serialisation of
\* request 1 takes, every other request that has reached its encode step
\* completes it.
C12_Offload ==
    /\ [](\A r \in Reqs : req[r].pc = "serializing" => (worker # r /\ r \in pool))
    /\ \A s \in Reqs \ {1} : (req[s].pc = "encode") ~> (req[s].pc = "done")

\* Request 2 began its encode step while request 1 was being serialised and
\* has its 200 response, request 1 still being serialised.
C12_Witness ==
    /\ req[1].pc = "serializing" /\ 1 \in pool /\ worker = 0
    /\ req[2].pc = "done" /\ 1 \in req[2].during
    /\ req[2].serializations = 1
    /\ req[2].response.status = 200

(***************************************************************************)
(* Properties of the textual decoder.                                      *)
(***************************************************************************)
\* The generations whose payload field set is exactly that of document d.
Matching(d) == { g \in Gen : DOMAIN d["execution_payload"] = PayloadNames(g) }

Read200(r) ==
    /\ client[r] # NoReply
    /\ req[r].response.status = 200
    /\ client[r].err # "Reqwest"

\* C14: the client decodes every 200 response it reads into
\* Response::Success carrying the list the handler returned.
C14_ClientDecodes ==
    \A r \in Reqs :
        Read200(r) =>
            /\ client[r].ok
            /\ client[r].value = Success(req[r].outcome.body.data)

\* What the client does with the server's success body: it reads a bare
\* JSON list as an enum and returns Error::InvalidJson, for every list.
C14_InvalidJson ==
    \A r \in Reqs :
        Read200(r) =>
            /\ req[r].response.body = JsonBytes(JArr(req[r].outcome.body.data))
            /\ ~client[r].ok
            /\ client[r].err = "InvalidJson"

\* The list << 7, 8 >> was sent as a 200 response and the client returned
\* InvalidJson.
C14_Witness ==
    /\ req[1].outcome = Success(Payload(<< 7, 8 >>, "ok"))
    /\ req[1].response = HttpResponse(200, "application/json", JsonBytes(JArr(<< 7, 8 >>)))
    /\ client[1] = Failure("InvalidJson")

====
